---------------------------- MODULE Spec2Model ----------------------------
(***************************************************************************)
(* The TokenLoyalty prototype panel of src/app/components/TokenLoyalty.tsx *)
(* as a state machine: the page-level React state (wallet, programs,       *)
(* selected, purchaseUsd, balances, ledger) and one action per event       *)
(* handler (connect, disconnect, select, purchase input, issue, redeem,    *)
(* create program, reset).                                                 *)
(*                                                                         *)
(* JavaScript numbers are modelled as exact extended rationals             *)
(* [n |-> numerator, d |-> denominator]: d > 0 is a finite value in lowest *)
(* terms, d = 0 is a non-finite value (n = 0 is NaN, n = 1 is +Infinity,   *)
(* n = -1 is -Infinity).  Binary rounding error of IEEE doubles is not     *)
(* modelled; NaN and its propagation are.                                  *)
(*                                                                         *)
(* The text of an <input> is a sequence of one-character strings.          *)
(***************************************************************************)
EXTENDS Integers, Sequences, FiniteSets, TLC

-----------------------------------------------------------------------------
(* JavaScript Number                                                       *)

Abs(i) == IF i < 0 THEN -i ELSE i

Sign(i) == IF i < 0 THEN -1 ELSE IF i > 0 THEN 1 ELSE 0

RECURSIVE GCD(_, _)
GCD(a, b) == IF b = 0 THEN a ELSE GCD(b, a % b)

NaN == [n |-> 0, d |-> 0]

Infinity(s) == [n |-> Sign(s), d |-> 0]

\* The finite value n / d (d # 0), in lowest terms with a positive denominator.
Ratio(n, d) ==
    LET g == GCD(Abs(n), Abs(d))
    IN  [n |-> Sign(d) * (n \div g), d |-> Abs(d) \div g]

Num(i) == [n |-> i, d |-> 1]

IsNaN(x) == x.d = 0 /\ x.n = 0

IsFinite(x) == x.d > 0

\* x + y
Add(x, y) ==
    IF IsNaN(x) \/ IsNaN(y) THEN NaN
    ELSE IF ~IsFinite(x) /\ ~IsFinite(y) THEN (IF x.n = y.n THEN x ELSE NaN)
    ELSE IF ~IsFinite(x) THEN x
    ELSE IF ~IsFinite(y) THEN y
    ELSE Ratio(x.n * y.d + y.n * x.d, x.d * y.d)

Neg(x) == [n |-> -x.n, d |-> x.d]

\* x - y
Sub(x, y) == Add(x, Neg(y))

\* x * y
Mul(x, y) ==
    IF IsNaN(x) \/ IsNaN(y) THEN NaN
    ELSE IF ~IsFinite(x) \/ ~IsFinite(y)
         THEN (IF x.n = 0 \/ y.n = 0 THEN NaN ELSE Infinity(Sign(x.n) * Sign(y.n)))
    ELSE Ratio(x.n * y.n, x.d * y.d)

\* x / y (a zero divisor counts as +0)
Div(x, y) ==
    IF IsNaN(x) \/ IsNaN(y) THEN NaN
    ELSE IF ~IsFinite(x) THEN (IF ~IsFinite(y) THEN NaN
                               ELSE Infinity(x.n * (IF y.n < 0 THEN -1 ELSE 1)))
    ELSE IF ~IsFinite(y) THEN Num(0)
    ELSE IF y.n = 0 THEN (IF x.n = 0 THEN NaN ELSE Infinity(x.n))
    ELSE Ratio(x.n * y.d, x.d * y.n)

\* x < y; false when either side is NaN
Lt(x, y) ==
    /\ ~IsNaN(x)
    /\ ~IsNaN(y)
    /\ IF IsFinite(x) /\ IsFinite(y) THEN x.n * y.d < y.n * x.d
       ELSE IF ~IsFinite(x) /\ ~IsFinite(y) THEN x.n < y.n
       ELSE IF ~IsFinite(x) THEN x.n < 0
       ELSE y.n > 0

\* x === y on numbers; false when either side is NaN
NumEq(x, y) == ~IsNaN(x) /\ ~IsNaN(y) /\ x = y

Gt(x, y) == Lt(y, x)

Le(x, y) == Lt(x, y) \/ NumEq(x, y)

Ge(x, y) == Le(y, x)

\* Math.max(a, b): NaN when either argument is NaN
MathMax(a, b) ==
    IF IsNaN(a) \/ IsNaN(b) THEN NaN ELSE IF Lt(a, b) THEN b ELSE a

\* Math.round(x): the nearest integer, halves towards +Infinity
MathRound(x) ==
    IF ~IsFinite(x) THEN x ELSE Num((2 * x.n + x.d) \div (2 * x.d))

\* x || 0: a falsy number (0 or NaN) becomes 0
OrZero(x) == IF IsNaN(x) \/ x = Num(0) THEN Num(0) ELSE x

-----------------------------------------------------------------------------
(* parseInt and parseFloat on the text of an input                         *)

DigitChars == {"0", "1", "2", "3", "4", "5", "6", "7", "8", "9"}

DigitVal(c) ==
    CASE c = "0" -> 0 [] c = "1" -> 1 [] c = "2" -> 2 [] c = "3" -> 3
      [] c = "4" -> 4 [] c = "5" -> 5 [] c = "6" -> 6 [] c = "7" -> 7
      [] c = "8" -> 8 [] c = "9" -> 9

\* The number of consecutive digits of s from position i on.
RECURSIVE DigitRun(_, _)
DigitRun(s, i) ==
    IF i <= Len(s) /\ s[i] \in DigitChars THEN 1 + DigitRun(s, i + 1) ELSE 0

\* The value of the k digits of s that start at position i.
RECURSIVE DigitsValue(_, _, _)
DigitsValue(s, i, k) ==
    IF k = 0 THEN 0
    ELSE 10 * DigitsValue(s, i, k - 1) + DigitVal(s[i + k - 1])

RECURSIVE Pow10(_)
Pow10(k) == IF k = 0 THEN 1 ELSE 10 * Pow10(k - 1)

\* parseInt(s, 10): an optional sign, then the longest run of digits; NaN
\* when there is no digit there.
ParseInt(s) ==
    LET neg   == Len(s) >= 1 /\ s[1] = "-"
        start == IF neg THEN 2 ELSE 1
        k     == DigitRun(s, start)
    IN  IF k = 0 THEN NaN
        ELSE Num((IF neg THEN -1 ELSE 1) * DigitsValue(s, start, k))

\* parseFloat(s): an optional sign, digits, and an optional fraction ("." and
\* digits); NaN when neither part has a digit.  (Exponents do not occur in
\* the input texts of this model.)
ParseFloat(s) ==
    LET neg    == Len(s) >= 1 /\ s[1] = "-"
        start  == IF neg THEN 2 ELSE 1
        k      == DigitRun(s, start)
        hasDot == start + k <= Len(s) /\ s[start + k] = "."
        f      == IF hasDot THEN DigitRun(s, start + k + 1) ELSE 0
        whole  == DigitsValue(s, start, k)
        frac   == IF f = 0 THEN 0 ELSE DigitsValue(s, start + k + 1, f)
    IN  IF k = 0 /\ f = 0 THEN NaN
        ELSE Ratio((IF neg THEN -1 ELSE 1) * (whole * Pow10(f) + frac), Pow10(f))

\* e.target.value || "0"
OrZeroText(s) == IF s = <<>> THEN <<"0">> ELSE s

-----------------------------------------------------------------------------
(* Bounds of the model and the inputs the handlers draw from                *)

\* The ledger is explored up to this many rows.
MaxLedger == 2

\* At most this many programs are created on top of the seed programs.
MaxCreated == 2

\* What the "Amount" input of the purchase panel may hold.
PurchaseTexts ==
    { <<"1", "2", "0">>, <<".", "0", "1">>, <<"-", "5">> }

\* What the "Points" input of the redeem form may hold.
RedeemTexts ==
    { <<"6">>, <<"1", "0", "0">>, <<"-", "1">>, <<>> }

\* What the five inputs of the create-program form may hold when its button
\* is clicked.
CreateInputs ==
    { [name |-> "Penny Club", symbol |-> <<"p", "n", "y">>,
       value |-> <<"-", "3">>, earn |-> <<"2", ".", "5">>, breakage |-> <<"-", "5">>],
      [name |-> "Half Cent", symbol |-> <<"H", "c">>,
       value |-> <<".", "5">>, earn |-> <<"-", "1">>, breakage |-> <<>>],
      [name |-> "", symbol |-> <<"x">>,
       value |-> <<"1", "0", "0">>, earn |-> <<"5">>, breakage |-> <<"1", "0">>],
      [name |-> "No Symbol", symbol |-> <<>>,
       value |-> <<"1", "0", "0">>, earn |-> <<"5">>, breakage |-> <<"1", "0">>] }

\* Math.random().toString(36).slice(2, 7)
RandomBase36 == {"k3x9q", "7f2ab"}

\* Math.random().toString(16).slice(2, 10)
RandomHex8 == {"9f3a1c07"}

\* Math.random().toString(16).slice(2, 6)
RandomHex4 == {"b2e4"}

\* Date.now(), in milliseconds since some instant
Timestamps == {1}

Networks == {"demo", "eth", "sol"}

\* The inputs of the conversion runs (ConversionSpec): what the cents-per-point
\* and earn-rate inputs of the create-program form hold for the one program
\* created, and what the "Amount" input may hold.
ConversionValueTexts ==
    { <<"1">>, <<"3">>, <<"1", "0", "0">>, <<"2", "5", "0">> }

ConversionEarnTexts ==
    { <<"0">>, <<"2", ".", "5">>, <<"5">>, <<"0", ".", "7", "5">> }

ConversionInputs ==
    { [name |-> "Conversion", symbol |-> <<"c", "n", "v">>,
       value |-> v, earn |-> e, breakage |-> <<>>] :
        v \in ConversionValueTexts, e \in ConversionEarnTexts }

ConversionPurchaseTexts ==
    { <<"0", ".", "0", "1">>, <<"0", ".", "0", "3">>,
      <<"1", "9", ".", "9", "9">>, <<"0">> }

-----------------------------------------------------------------------------
(* Types and seed data                                                     *)

Program(id, name, tokenSymbol, fixedCentsPerPoint, earnRatePct, breakagePct) ==
    [id |-> id, name |-> name, tokenSymbol |-> tokenSymbol,
     fixedCentsPerPoint |-> fixedCentsPerPoint, earnRatePct |-> earnRatePct,
     breakagePct |-> breakagePct]

DEMO_PROGRAMS ==
    << Program("p1", "Gotham Sports Rewards", <<"G", "O", "T", "H">>,
               Num(100), Num(5), Num(15)),
       Program("p2", "Street Child Impact Cash", <<"I", "M", "P", "T">>,
               Num(100), Num(3), Num(0)),
       Program("p3", "Kraken Club Cashback", <<"K", "R", "A", "K">>,
               Num(100), Num(4), Num(10)) >>

\* useState<Wallet | null>(null)
NoWallet == [address |-> "", network |-> "null"]

LedgerRow(ts, type, programId, amountPts, amountUsd, note) ==
    [ts |-> ts, type |-> type, programId |-> programId,
     amountPts |-> amountPts, amountUsd |-> amountUsd, note |-> note]

\* The balances record {}.
EmptyBalances == [id \in {} |-> Num(0)]

VARIABLES
    wallet,       \* the connected mock wallet, or NoWallet
    programs,     \* the program list, newest first
    selected,     \* the id of the selected program
    purchaseUsd,  \* the amount of the simulated purchase
    balances,     \* program id -> points
    ledger,       \* the ledger rows, newest first
    lastEvent     \* history: whether the handler that ran last was a reset,
                  \* and the number of ledger rows it removed

vars == <<wallet, programs, selected, purchaseUsd, balances, ledger, lastEvent>>

\* What a handler leaves in lastEvent: a reset its name and the number of
\* ledger rows it removed, every other handler Quiet.  (The alerts of the
\* handlers are not kept in the state: a handler that alerts changes nothing.)
Quiet == [op |-> "", removed |-> 0]

Removed(op, removed) == [op |-> op, removed |-> removed]

-----------------------------------------------------------------------------
(* Derived values of a render                                              *)

ProgramIds == {programs[i].id : i \in 1..Len(programs)}

\* programs.find(p => p.id === id): the first program with that id.
FindProgram(id) ==
    programs[CHOOSE i \in 1..Len(programs) :
                 /\ programs[i].id = id
                 /\ \A j \in 1..(i - 1) : programs[j].id # id]

activeProgram == FindProgram(selected)

\* balances[selected] || 0
activeBalance ==
    IF selected \in DOMAIN balances THEN OrZero(balances[selected]) ELSE Num(0)

earnValueUsd == Div(Mul(purchaseUsd, activeProgram.earnRatePct), Num(100))

ptsPerDollar == Div(Num(100), activeProgram.fixedCentsPerPoint)

\* Mutant of earnPts: the points keep one decimal instead of two.
earnPts_OneDecimal ==
    Div(MathRound(Mul(Mul(earnValueUsd, ptsPerDollar), Num(10))), Num(10))

earnPts ==
    Div(MathRound(Mul(Mul(earnValueUsd, ptsPerDollar), Num(100))), Num(100))

\* fmt.format(x): US dollars to the cent, halves away from zero; the result
\* is kept as the number of cents it shows.
FmtCurrency(x) ==
    IF ~IsFinite(x) THEN x
    ELSE Num(Sign(x.n) * ((2 * Abs(x.n) * 100 + x.d) \div (2 * x.d)))

\* Mutant of Prepend: the new row goes behind the rows already there.
Prepend_AtTail(row, rows) == rows \o <<row>>

\* [row, ...rows]
Prepend(row, rows) == <<row>> \o rows

\* { ...balances } with next[id] = pts
SetBalance(id, pts) ==
    [k \in DOMAIN balances \cup {id} |-> IF k = id THEN pts ELSE balances[k]]

-----------------------------------------------------------------------------
(* Handlers                                                                *)

\* mockConnect(network), from the three connect buttons shown while no
\* wallet is connected.
mockConnect(network) ==
    /\ wallet = NoWallet
    /\ \E h8 \in RandomHex8, h4 \in RandomHex4 :
         LET prefix == IF network = "sol" THEN "SoL"
                       ELSE IF network = "eth" THEN "0x" ELSE "demo"
         IN  wallet' = [address |-> prefix \o h8 \o h4, network |-> network]
    /\ lastEvent' = Quiet
    /\ UNCHANGED <<programs, selected, purchaseUsd, balances, ledger>>

\* The Disconnect button, shown while a wallet is connected.
Disconnect ==
    /\ wallet # NoWallet
    /\ wallet' = NoWallet
    /\ lastEvent' = Quiet
    /\ UNCHANGED <<programs, selected, purchaseUsd, balances, ledger>>

\* The program selector: one option per program, its value the program id.
Select(id) ==
    /\ id \in ProgramIds
    /\ selected' = id
    /\ lastEvent' = Quiet
    /\ UNCHANGED <<wallet, programs, purchaseUsd, balances, ledger>>

\* The purchase amount input: parseFloat(e.target.value) || 0
SetPurchaseUsd(text) ==
    /\ purchaseUsd' = OrZero(ParseFloat(text))
    /\ lastEvent' = Quiet
    /\ UNCHANGED <<wallet, programs, selected, balances, ledger>>

\* The alert issuePoints() returns with, "" when it goes through.
IssueAlert ==
    IF wallet = NoWallet THEN "Connect a wallet first (mock)."
    ELSE IF Le(purchaseUsd, Num(0)) THEN "Enter a purchase amount > 0."
    ELSE ""

\* next[selected] of issuePoints()
IssueBalance == Add(activeBalance, earnPts)

issuePoints ==
    IF IssueAlert # ""
    THEN \* alert(IssueAlert)
         /\ lastEvent' = Quiet
         /\ UNCHANGED <<wallet, programs, selected, purchaseUsd, balances, ledger>>
    ELSE /\ Len(ledger) < MaxLedger
         /\ balances' = SetBalance(selected, IssueBalance)
         /\ \E now \in Timestamps :
              ledger' = Prepend(LedgerRow(now, "ISSUE", selected, earnPts, earnValueUsd,
                                          <<"Purchase", FmtCurrency(purchaseUsd)>>),
                                ledger)
         /\ lastEvent' = Quiet
         /\ UNCHANGED <<wallet, programs, selected, purchaseUsd>>

\* Mutant of RedeemAlert: the check against the balance is missing.
RedeemAlert_NoBalanceCheck(amountPts) ==
    IF wallet = NoWallet THEN "Connect a wallet first (mock)."
    ELSE IF Le(amountPts, Num(0)) THEN "Enter a positive amount."
    ELSE ""

\* The alert redeem(amountPts) returns with, "" when it goes through.
RedeemAlert(amountPts) ==
    IF wallet = NoWallet THEN "Connect a wallet first (mock)."
    ELSE IF Le(amountPts, Num(0)) THEN "Enter a positive amount."
    ELSE IF Gt(amountPts, activeBalance) THEN "Not enough balance."
    ELSE ""

\* usd of redeem(amountPts)
RedeemUsd(amountPts) == Div(amountPts, ptsPerDollar)

\* next[selected] of redeem(amountPts)
RedeemBalance(amountPts) == Sub(activeBalance, amountPts)

redeem(amountPts) ==
    IF RedeemAlert(amountPts) # ""
    THEN \* alert(RedeemAlert(amountPts))
         /\ lastEvent' = Quiet
         /\ UNCHANGED <<wallet, programs, selected, purchaseUsd, balances, ledger>>
    ELSE /\ Len(ledger) < MaxLedger
         /\ balances' = SetBalance(selected, RedeemBalance(amountPts))
         /\ \E now \in Timestamps :
              ledger' = Prepend(LedgerRow(now, "REDEEM", selected, amountPts,
                                          RedeemUsd(amountPts),
                                          <<"Checkout (gift card / bill credit)">>),
                                ledger)
         /\ lastEvent' = Quiet
         /\ UNCHANGED <<wallet, programs, selected, purchaseUsd>>

\* RedeemForm: the points input (parseFloat(e.target.value || "0")) and the
\* Redeem button.
RedeemClick(text) == redeem(ParseFloat(OrZeroText(text)))

\* addProgram(p)
addProgram(p) ==
    \E r \in RandomBase36 :
        LET id == "p" \o r
        IN  /\ programs' = Prepend(Program(id, p.name, p.tokenSymbol,
                                           p.fixedCentsPerPoint, p.earnRatePct,
                                           p.breakagePct),
                                   programs)
            /\ selected' = id

UpperChar(c) ==
    CASE c = "a" -> "A" [] c = "b" -> "B" [] c = "c" -> "C" [] c = "d" -> "D"
      [] c = "e" -> "E" [] c = "f" -> "F" [] c = "g" -> "G" [] c = "h" -> "H"
      [] c = "i" -> "I" [] c = "j" -> "J" [] c = "k" -> "K" [] c = "l" -> "L"
      [] c = "m" -> "M" [] c = "n" -> "N" [] c = "o" -> "O" [] c = "p" -> "P"
      [] c = "q" -> "Q" [] c = "r" -> "R" [] c = "s" -> "S" [] c = "t" -> "T"
      [] c = "u" -> "U" [] c = "v" -> "V" [] c = "w" -> "W" [] c = "x" -> "X"
      [] c = "y" -> "Y" [] c = "z" -> "Z" [] OTHER -> c

\* s.toUpperCase()
ToUpperCase(s) == [i \in 1..Len(s) |-> UpperChar(s[i])]

\* The values the create-program form holds after its inputs were filled
\* with the texts of `input`.
FormState(input) ==
    [name     |-> input.name,
     symbol   |-> ToUpperCase(input.symbol),
     value    |-> ParseInt(OrZeroText(input.value)),
     earn     |-> ParseFloat(OrZeroText(input.earn)),
     breakage |-> ParseFloat(OrZeroText(input.breakage))]

\* The argument the Create program button passes to onCreate.
NewProgram(form) ==
    [name |-> form.name, tokenSymbol |-> form.symbol,
     fixedCentsPerPoint |-> MathMax(Num(1), form.value),
     earnRatePct |-> MathMax(Num(0), form.earn),
     breakagePct |-> MathMax(Num(0), form.breakage)]

\* ProgramForm: the Create program button.
CreateProgram(input) ==
    LET form == FormState(input)
    IN  IF form.name = "" \/ form.symbol = <<>>
        THEN \* alert("Name & symbol required")
             /\ lastEvent' = Quiet
             /\ UNCHANGED <<wallet, programs, selected, purchaseUsd, balances, ledger>>
        ELSE /\ Len(programs) < Len(DEMO_PROGRAMS) + MaxCreated
             /\ addProgram(NewProgram(form))
             /\ lastEvent' = Quiet
             /\ UNCHANGED <<wallet, purchaseUsd, balances, ledger>>

\* Mutant of ResetBalances: the balances survive the reset.
ResetBalances_Kept == balances

\* setBalances({}) of resetAll()
ResetBalances == EmptyBalances

\* Mutant of ResetLedger: the ledger rows survive the reset.
ResetLedger_Kept == ledger

\* setLedger([]) of resetAll()
ResetLedger == <<>>

resetAll ==
    /\ balances' = ResetBalances
    /\ ledger' = ResetLedger
    /\ programs' = DEMO_PROGRAMS
    /\ selected' = DEMO_PROGRAMS[1].id
    /\ wallet' = NoWallet
    /\ lastEvent' = Removed("resetAll", Len(ledger))
    /\ UNCHANGED purchaseUsd

-----------------------------------------------------------------------------

Init ==
    /\ wallet = NoWallet
    /\ programs = DEMO_PROGRAMS
    /\ selected = DEMO_PROGRAMS[1].id
    /\ purchaseUsd = Num(120)
    /\ balances = EmptyBalances
    /\ ledger = <<>>
    /\ lastEvent = Quiet

Next ==
    \/ \E network \in Networks : mockConnect(network)
    \/ Disconnect
    \/ \E id \in ProgramIds : Select(id)
    \/ \E text \in PurchaseTexts : SetPurchaseUsd(text)
    \/ issuePoints
    \/ \E text \in RedeemTexts : RedeemClick(text)
    \/ \E input \in CreateInputs : CreateProgram(input)
    \/ resetAll

Spec == Init /\ [][Next]_vars

-----------------------------------------------------------------------------
(* The conversion runs: a wallet is connected and one program was created  *)
(* from the form; purchases are entered, points issued and the points of a *)
(* ledger row redeemed.                                                    *)

\* The state after mockConnect("demo") and a click on Create program with
\* the form filled from one of ConversionInputs.
ConversionInit ==
    /\ \E network \in {"demo"}, h8 \in RandomHex8, h4 \in RandomHex4 :
         wallet = [address |-> "demo" \o h8 \o h4, network |-> network]
    /\ \E input \in ConversionInputs, r \in {"k3x9q"} :
         LET p  == NewProgram(FormState(input))
             id == "p" \o r
         IN  /\ programs = <<Program(id, p.name, p.tokenSymbol,
                                      p.fixedCentsPerPoint, p.earnRatePct,
                                      p.breakagePct)>> \o DEMO_PROGRAMS
             /\ selected = id
    /\ purchaseUsd = Num(120)
    /\ balances = EmptyBalances
    /\ ledger = <<>>
    /\ lastEvent = Quiet

\* RedeemForm with the points of a ledger row typed into its input.
RedeemRow == \E i \in 1..Len(ledger) : redeem(ledger[i].amountPts)

ConversionNext ==
    \/ \E text \in ConversionPurchaseTexts : SetPurchaseUsd(text)
    \/ issuePoints
    \/ RedeemRow

ConversionSpec == ConversionInit /\ [][ConversionNext]_vars

-----------------------------------------------------------------------------
(* Properties                                                              *)

\* The balance of a program id in the balances record b, 0 when absent.
BalanceIn(b, id) == IF id \in DOMAIN b THEN b[id] ELSE Num(0)

BalanceOf(id) == BalanceIn(balances, id)

\* The sum of amountPts over the first k ledger rows of the given type and
\* program id.
RECURSIVE SumPts(_, _, _)
SumPts(type, id, k) ==
    IF k = 0 THEN Num(0)
    ELSE IF ledger[k].type = type /\ ledger[k].programId = id
         THEN Add(SumPts(type, id, k - 1), ledger[k].amountPts)
         ELSE SumPts(type, id, k - 1)

KnownIds == ProgramIds \cup DOMAIN balances

\* Every handler but resetAll.
NextButReset ==
    \/ \E network \in Networks : mockConnect(network)
    \/ Disconnect
    \/ \E id \in ProgramIds : Select(id)
    \/ \E text \in PurchaseTexts : SetPurchaseUsd(text)
    \/ issuePoints
    \/ \E text \in RedeemTexts : RedeemClick(text)
    \/ \E input \in CreateInputs : CreateProgram(input)

\* C1: in every reachable state, the balance of every program id (0 when
\* absent) equals the sum of amountPts of its ISSUE rows minus the sum of
\* amountPts of its REDEEM rows.
C1_BalanceConserved ==
    \A id \in KnownIds :
        NumEq(BalanceOf(id),
              Sub(SumPts("ISSUE", id, Len(ledger)), SumPts("REDEEM", id, Len(ledger))))

\* C2: an issue invoked with no wallet or a purchase amount <= 0, and a
\* redeem invoked with no wallet, points <= 0 or points above the selected
\* program's balance, leave the balances and the ledger exactly as they were.
C2_RejectedNoMutation ==
    [][ \/ UNCHANGED <<balances, ledger>>
        \/ /\ ~((wallet = NoWallet \/ Le(purchaseUsd, Num(0))) /\ issuePoints)
           /\ \A text \in RedeemTexts :
                LET pts == ParseFloat(OrZeroText(text))
                IN  ~(/\ \/ wallet = NoWallet
                         \/ Le(pts, Num(0))
                         \/ Gt(pts, BalanceOf(selected))
                      /\ RedeemClick(text)) ]_vars

\* C2 witness: a state with rows in the ledger and a positive balance of the
\* selected program in which a redeem of 100 points is rejected for lack of
\* balance; the rejected redeem leaves this very state.
C2_Witness ==
    /\ wallet # NoWallet
    /\ ledger # <<>>
    /\ Gt(BalanceOf(selected), Num(0))
    /\ Lt(BalanceOf(selected), Num(100))
    /\ <<"1", "0", "0">> \in RedeemTexts
    /\ RedeemAlert(ParseFloat(<<"1", "0", "0">>)) = "Not enough balance."

\* C3: the balance of every program id is non-negative in every reachable
\* state.
C3_BalanceNonNegative == \A id \in DOMAIN balances : Ge(balances[id], Num(0))

\* C4: every handler other than reset leaves the ledger unchanged or puts
\* exactly one new row at its head, with the rows that were there kept
\* unmodified and in order behind it.
C4_AppendOnly ==
    [][ \/ ledger' = ledger
        \/ /\ Len(ledger') = Len(ledger) + 1
           /\ Tail(ledger') = ledger
        \/ ~NextButReset ]_vars

\* C4 witness: a REDEEM row sits at the head, in front of the ISSUE row that
\* was there before it.
C4_Witness ==
    /\ Len(ledger) = 2
    /\ ledger[1].type = "REDEEM"
    /\ ledger[2].type = "ISSUE"

\* C5: a successful issue (wallet connected, purchase amount > 0) increases
\* the selected program's balance by exactly
\* pts = round2((purchase * earnRatePct / 100) * (100 / fixedCentsPerPoint)),
\* leaves every other balance unchanged and adds one ISSUE row for the
\* selected program id with amountPts = pts and
\* amountUsd = purchase * earnRatePct / 100.
C5_IssueEffect ==
    [][ (wallet # NoWallet /\ Gt(purchaseUsd, Num(0)) /\ issuePoints)
        => LET usd == Div(Mul(purchaseUsd, activeProgram.earnRatePct), Num(100))
               pts == Div(MathRound(Mul(Mul(usd, Div(Num(100),
                                                     activeProgram.fixedCentsPerPoint)),
                                            Num(100))),
                          Num(100))
           IN  /\ NumEq(BalanceIn(balances', selected), Add(BalanceOf(selected), pts))
               /\ \A id \in KnownIds \ {selected} :
                    BalanceIn(balances', id) = BalanceOf(id)
               /\ Len(ledger') = Len(ledger) + 1
               /\ Tail(ledger') = ledger
               /\ ledger'[1].type = "ISSUE"
               /\ ledger'[1].programId = selected
               /\ NumEq(ledger'[1].amountPts, pts)
               /\ NumEq(ledger'[1].amountUsd, usd) ]_vars

\* C6: a successful redeem (wallet connected, 0 < points <= balance of the
\* selected program) decreases the selected program's balance by exactly
\* points, leaves every other balance unchanged and adds one REDEEM row for
\* the selected program id with amountPts = points and
\* amountUsd = points * fixedCentsPerPoint / 100; and with a balance of 0 a
\* redeem of any positive amount is rejected.
C6_RedeemEffect ==
    [][ \A text \in RedeemTexts :
          LET pts == ParseFloat(OrZeroText(text))
          IN  /\ (/\ wallet # NoWallet
                  /\ Gt(pts, Num(0))
                  /\ Le(pts, BalanceOf(selected))
                  /\ RedeemClick(text))
                 => /\ NumEq(BalanceIn(balances', selected),
                             Sub(BalanceOf(selected), pts))
                    /\ \A id \in KnownIds \ {selected} :
                         BalanceIn(balances', id) = BalanceOf(id)
                    /\ Len(ledger') = Len(ledger) + 1
                    /\ Tail(ledger') = ledger
                    /\ ledger'[1].type = "REDEEM"
                    /\ ledger'[1].programId = selected
                    /\ NumEq(ledger'[1].amountPts, pts)
                    /\ NumEq(ledger'[1].amountUsd,
                             Div(Mul(pts, activeProgram.fixedCentsPerPoint), Num(100)))
              /\ (/\ Gt(pts, Num(0))
                  /\ NumEq(BalanceOf(selected), Num(0))
                  /\ RedeemClick(text))
                 => UNCHANGED <<balances, ledger>> ]_vars

\* C7: reset, from any reachable state, yields the three seed programs in
\* seed order, the first seed program selected, an empty balances record and
\* an empty ledger.
C7_ResetRestoresSeed ==
    lastEvent.op = "resetAll"
    => /\ programs = DEMO_PROGRAMS
       /\ Len(programs) = 3
       /\ selected = "p1"
       /\ DOMAIN balances = {}
       /\ ledger = <<>>

\* C7 witness: a reset has just run from a state with two ledger rows.
C7_Witness == lastEvent.op = "resetAll" /\ lastEvent.removed = 2

\* C8: no two programs of the registry have the same id.
C8_UniqueIds ==
    \A i, j \in 1..Len(programs) : i # j => programs[i].id # programs[j].id

\* C9: every ledger row records a positive quantity of points.
C9_PositivePoints ==
    \A k \in 1..Len(ledger) : Gt(ledger[k].amountPts, Num(0))

\* C10: every program of the registry has fixedCentsPerPoint >= 1,
\* earnRatePct >= 0 and breakagePct >= 0.
C10_ProgramsClamped ==
    \A i \in 1..Len(programs) :
        /\ Ge(programs[i].fixedCentsPerPoint, Num(1))
        /\ Ge(programs[i].earnRatePct, Num(0))
        /\ Ge(programs[i].breakagePct, Num(0))

\* |x|
AbsNum(x) == IF Lt(x, Num(0)) THEN Neg(x) ELSE x

\* The currency value of the rounding step of the earned points of the
\* selected program: 0.005 points at fixedCentsPerPoint / 100 dollars each.
RoundingStepUsd ==
    Div(Mul(Ratio(5, 1000), activeProgram.fixedCentsPerPoint), Num(100))

SeedIds == {DEMO_PROGRAMS[i].id : i \in 1..Len(DEMO_PROGRAMS)}

\* C12: in every reachable state the selected program id is the id of a
\* program in the list, and so is the programId of every ledger row.
C12_NoDanglingReference ==
    /\ selected \in ProgramIds
    /\ \A i \in 1..Len(ledger) : ledger[i].programId \in ProgramIds

\* C12 witness: a created program is selected while the ledger holds a row of
\* a created program and a row of a seed program.
C12_Witness ==
    /\ selected \in ProgramIds \ SeedIds
    /\ \E i \in 1..Len(ledger) : ledger[i].programId \in ProgramIds \ SeedIds
    /\ \E i \in 1..Len(ledger) : ledger[i].programId \in SeedIds

====
